---- MODULE Spec2Model ----
(***************************************************************************)
(* SentryAI (src/src/App.tsx): the detection and alert pipeline of the     *)
(* App component.  The state is the component's React state and refs, the  *)
(* closure captured by the detectMotion effect, the pending animation      *)
(* frame callback, the outstanding remote verifications and the wall       *)
(* clock.  State setters followed by React's re-render and effect re-run   *)
(* are modelled as one atomic step with the handler that called them.      *)
(* Presentation-only state (lastMotionDetected, the random event id) is    *)
(* left out.                                                                *)
(***************************************************************************)
EXTENDS Integers, Sequences, FiniteSets, TLC

VARIABLES
    isMonitoring,           \* useState(false), line 47
    stream,                 \* useState(null), line 48: TRUE when a MediaStream is held
    isSuspicious,           \* useState(false), line 49: the alarm state (TRUE = Alerting)
    events,                 \* useState([]), line 50: the event log, newest first
    activeTab,              \* useState('live'), line 51
    isMuted,                \* useState(false), line 52
    sensitivity,            \* useState(85), line 53
    audioSensitivity,       \* useState(60), line 54
    isSmartGuard,           \* useState(true), line 55
    isAnalyzing,            \* useState(false), line 56: the in-flight flag
    audioLevel,             \* useState(0), line 58, in units of 1/255 percent
    currentMotionLevel,     \* useState(0), line 69, as percent times CanvasWidth * CanvasHeight
    prevFrameRef,           \* useRef(null), line 63
    lastFrameTimeRef,       \* useRef(0), line 64
    lastDetectionTimeRef,   \* useRef(0), line 65
    analyserRef,            \* useRef(null), line 68: "null" or "node"
    closure,                \* the values detectMotion and analyzeFrame captured when the effect last ran
    animationFrame,         \* TRUE when a requestAnimationFrame callback is pending
    pending,                \* the verification requests sent and not yet answered
    clock,                  \* the last reading of Date.now()
    last,                   \* observation: what the last step did
    scoredInSession         \* observation: a tick of the running session has scored motion

vars == <<isMonitoring, stream, isSuspicious, events, activeTab, isMuted, sensitivity,
          audioSensitivity, isSmartGuard, isAnalyzing, audioLevel, currentMotionLevel,
          prevFrameRef, lastFrameTimeRef, lastDetectionTimeRef, analyserRef, closure,
          animationFrame, pending, clock, last, scoredInSession>>

-----------------------------------------------------------------------------
(* Bounds of the model *)

\* The clock reading at page load.  Date.now() is milliseconds since 1970, far
\* above every window of the program; any reading above 1000 behaves alike.
Epoch == 2000

\* How many milliseconds of a run are explored.
MaxElapsed == 1001

\* The canvas is 640 x 480 (line 395): a width that is a multiple of 4.  The
\* model keeps that shape on a small raster: 4 * QuadsPerRow by Rows pixels, of
\* which detectMotion samples QuadsPerRow * Rows (ten, so that scores of 10 and 90
\* percent and the thresholds 10, 20, 30 and 40 are met exactly).
QuadsPerRow == 5

Rows == 2

\* How many ticks the long run of LogSpec takes after its first.
MaxLogTicks == 52

-----------------------------------------------------------------------------
(* Program constants *)

MaxEvents == 50

MotionInterval == 100

PixelNoiseFloor == 45

CooldownSmart == 1000

CooldownInstant == 300

-----------------------------------------------------------------------------
(* Values and inputs *)

Null == "null"

\* prevFrameRef.current === null: no raster, the empty array
NoFrame == <<>>

Max(a, b) == IF a > b THEN a ELSE b

\* canvas.width and canvas.height, line 395 (scaled, see QuadsPerRow and Rows)
CanvasWidth == 4 * QuadsPerRow

CanvasHeight == Rows

\* ImageData.data holds 4 bytes (R, G, B, A) per pixel; data[i] is DataAt(data, i)
DataLength == 4 * CanvasWidth * CanvasHeight

DataAt(data, i) == data[i + 1]

\* A raster whose pixels are all (v, v, v, 255)
Uniform(v) == [k \in 1..DataLength |-> IF k % 4 = 0 THEN 255 ELSE v]

\* A raster that is black except for its first pixel, which is (v, v, v, 255)
Patch(v) == [k \in 1..DataLength |-> IF k % 4 = 0 THEN 255 ELSE IF k <= 4 THEN v ELSE 0]

\* A raster that is black except for the first count pixels that detectMotion
\* samples (pixels 0, 4, 8, ...), which are white
Lit(count) ==
    [k \in 1..DataLength |->
        IF k % 4 = 0 THEN 255
        ELSE IF (k - 1) % 16 < 4 /\ (k - 1) \div 16 < count THEN 255 ELSE 0]

\* The video frames a tick may draw
FrameInputs == {Uniform(0), Patch(255)}

\* The peak byte getByteFrequencyData may deliver
PeakInputs == {0, 128}

\* The values the two sliders are moved between (min 1, max 99, lines 541-559)
SensitivityInputs == {85, 20}

AudioSensitivityInputs == {60, 5}

\* Clock readings of the ticks: one millisecond after page load, and from there
\* the end of each cooldown window and the millisecond after it
Marks == {0} \cup {c + e : c \in {CooldownInstant, CooldownSmart}, e \in {0, 1}}

Times == {Epoch + 1 + m : m \in {a \in Marks : a <= MaxElapsed}}

\* What the remote call may do: throw, or return a text that JSON.parse rejects,
\* or a JSON object with or without a truthy isSuspicious and a reason
Responses ==
    {[kind |-> "throw", isSuspicious |-> FALSE, reason |-> ""],
     [kind |-> "unparsable", isSuspicious |-> FALSE, reason |-> ""],
     [kind |-> "json", isSuspicious |-> FALSE, reason |-> "Empty room"],
     [kind |-> "json", isSuspicious |-> TRUE, reason |-> "Person detected"],
     [kind |-> "json", isSuspicious |-> TRUE, reason |-> ""]}

-----------------------------------------------------------------------------
(* Pure computations of detectMotion and analyzeFrame *)

\* line 190, in units of 1/255 percent: (max / 255) * 100
NormalizedLevel(max) == max * 100

\* line 193: normalizedLevel > (100 - audioSensitivity)
AudioAboveThreshold(max, audioSens) == NormalizedLevel(max) > (100 - audioSens) * 255

\* lines 194 and 264 with the instant window in both modes
CooldownWindowInstantOnly(smartGuard) == CooldownInstant

\* lines 194 and 264: isSmartGuard ? 1000 : 300
CooldownWindow(smartGuard) == IF smartGuard THEN CooldownSmart ELSE CooldownInstant

\* lines 194 and 264: now - lastDetectionTimeRef.current > window
CooldownElapsed(now, lastDetection, smartGuard) ==
    now - lastDetection > CooldownWindow(smartGuard)

\* the motion part without the test of line 222: it runs at every tick
MotionAlwaysDue(now, lastFrameTime) == TRUE

\* line 222 negated: the motion part runs unless now - lastFrameTimeRef.current < 100
MotionDue(now, lastFrameTime) == ~(now - lastFrameTime < MotionInterval)

Abs(x) == IF x < 0 THEN -x ELSE x

\* lines 243-250: the sampled offsets i = 0, 16, 32, ... and the changed-pixel count
SampleOffsets == {i \in 0..(DataLength - 1) : i % 16 = 0}

PixelChanged(data, prevData, i) ==
    Abs(DataAt(data, i) - DataAt(prevData, i))
      + Abs(DataAt(data, i + 1) - DataAt(prevData, i + 1))
      + Abs(DataAt(data, i + 2) - DataAt(prevData, i + 2)) > PixelNoiseFloor

Diff(data, prevData) == Cardinality({i \in SampleOffsets : PixelChanged(data, prevData, i)})

\* line 253 dividing by a sixteenth of the pixels, the stride of the loop in bytes
MotionLevelOverSixteenth(data, prevData) == Diff(data, prevData) * 1600

\* line 253: (diff / (canvas.width * canvas.height / 4)) * 100, kept exact as the
\* numerator over the denominator CanvasWidth * CanvasHeight
MotionLevel(data, prevData) == Diff(data, prevData) * 400

\* lines 258-260 without the halving: Math.max(0.5, 100 - sensitivity)
MotionAboveThresholdUnhalved(level, sens) ==
    2 * level > Max(1, 2 * (100 - sens)) * (CanvasWidth * CanvasHeight)

\* lines 258-260: motionLevel > Math.max(0.5, (100 - sensitivity) / 2), both sides
\* multiplied by 2 * CanvasWidth * CanvasHeight
MotionAboveThreshold(level, sens) ==
    2 * level > Max(1, 100 - sens) * (CanvasWidth * CanvasHeight)

\* line 167 and 281 without the slice: the log grows without bound
InsertUncapped(newEvent, prev) == <<newEvent>> \o prev

\* lines 167, 214, 281: [newEvent, ...prev].slice(0, 50)
Insert(newEvent, prev) ==
    LET all == <<newEvent>> \o prev
    IN  SubSeq(all, 1, IF Len(all) < MaxEvents THEN Len(all) ELSE MaxEvents)

\* lines 160-166, 207-213, 274-280
NewEvent(now, snapshot, reason) ==
    [timestamp |-> now, image |-> snapshot, isSuspicious |-> TRUE, reason |-> reason]

\* lines 201 and 268: canvas.toDataURL of the frame drawn at time now
Snapshot(now) == [capturedAt |-> now]

-----------------------------------------------------------------------------
(* The state after the first render *)

NoTick == [op |-> "Init", audio |-> "-", motion |-> "-", outcome |-> "-"]

Did(op) == [op |-> op, audio |-> "-", motion |-> "-", outcome |-> "-"]

Init ==
    /\ isMonitoring = FALSE
    /\ stream = FALSE
    /\ isSuspicious = FALSE
    /\ events = <<>>
    /\ activeTab = "live"
    /\ isMuted = FALSE
    /\ sensitivity = 85
    /\ audioSensitivity = 60
    /\ isSmartGuard = TRUE
    /\ isAnalyzing = FALSE
    /\ audioLevel = 0
    /\ currentMotionLevel = 0
    /\ prevFrameRef = NoFrame
    /\ lastFrameTimeRef = 0
    /\ lastDetectionTimeRef = 0
    /\ analyserRef = Null
    /\ closure = [isMonitoring |-> FALSE, sensitivity |-> 85, isAnalyzing |-> FALSE,
                  isSmartGuard |-> TRUE, audioSensitivity |-> 60]
    /\ animationFrame = FALSE
    /\ pending = {}
    /\ clock = Epoch
    /\ last = NoTick
    /\ scoredInSession = FALSE

\* lines 83-89: the alarm sound plays exactly when isSuspicious && !isMuted
AlarmPlaying == isSuspicious /\ ~isMuted

\* lines 61-62, 388-395: the video and canvas elements exist (the refs are set)
\* only while the live tab shows a running session
RefsMounted == isMonitoring /\ activeTab = "live"

\* lines 176-296: after a render the effect is cleaned up and run again exactly when
\* one of its dependencies [isMonitoring, sensitivity, analyzeFrame] changed, and
\* analyzeFrame changes exactly when isAnalyzing does (line 174).  A re-run cancels
\* the pending frame (line 295), captures the rendered values and requests a frame
\* if isMonitoring (lines 291-293).  Otherwise the old closure and whatever frame
\* the handler left pending stay.
DepsChanged(mon, sens, ana) ==
    <<mon, sens, ana>> # <<closure.isMonitoring, closure.sensitivity, closure.isAnalyzing>>

\* the effect without the cleanup of line 295: a frame requested before stays
EffectRunWithoutCleanup(mon, sens, ana, smart, audioSens, frameLeft) ==
    IF DepsChanged(mon, sens, ana)
    THEN /\ closure' = [isMonitoring |-> mon, sensitivity |-> sens, isAnalyzing |-> ana,
                        isSmartGuard |-> smart, audioSensitivity |-> audioSens]
         /\ animationFrame' = (mon \/ frameLeft)
    ELSE /\ closure' = closure
         /\ animationFrame' = frameLeft

EffectRun(mon, sens, ana, smart, audioSens, frameLeft) ==
    IF DepsChanged(mon, sens, ana)
    THEN /\ closure' = [isMonitoring |-> mon, sensitivity |-> sens, isAnalyzing |-> ana,
                        isSmartGuard |-> smart, audioSensitivity |-> audioSens]
         /\ animationFrame' = mon
    ELSE /\ closure' = closure
         /\ animationFrame' = frameLeft

-----------------------------------------------------------------------------
(* detectMotion, lines 179-289: one animation frame callback *)

\* analyzeFrame without its guard of line 130
AnalyzeFrameCallUnguarded == "verify"

\* line 130: analyzeFrame returns at once when the captured isAnalyzing is true
AnalyzeFrameCall == IF closure.isAnalyzing THEN "dropped" ELSE "verify"

\* lines 185-219: what the audio part of the tick does
AudioOutcome(now, max, ctxOk) ==
    IF analyserRef = Null THEN "off"
    ELSE IF ~AudioAboveThreshold(max, closure.audioSensitivity) THEN "quiet"
    ELSE IF ~CooldownElapsed(now, lastDetectionTimeRef, closure.isSmartGuard) THEN "cooldown"
    ELSE IF ~ctxOk THEN "noctx"
    ELSE IF closure.isSmartGuard THEN AnalyzeFrameCall
    ELSE "instant"

\* the audio part without line 195: the cooldown clock is left to the motion part
DetectionTimeAfterAudioUnset(now, audio) == lastDetectionTimeRef

\* line 195: the audio part sets the cooldown clock once the cooldown check passed
DetectionTimeAfterAudio(now, audio) ==
    IF audio \in {"noctx", "dropped", "verify", "instant"} THEN now ELSE lastDetectionTimeRef

\* lines 221-285: what the motion part of the tick does
MotionOutcome(now, lastDetection, frame, ctxOk) ==
    IF ~MotionDue(now, lastFrameTimeRef) THEN "skipped"
    ELSE IF ~ctxOk THEN "noctx"
    ELSE IF prevFrameRef = NoFrame THEN "first"
    ELSE IF ~MotionAboveThreshold(MotionLevel(frame, prevFrameRef), closure.sensitivity) THEN "still"
    ELSE IF ~CooldownElapsed(now, lastDetection, closure.isSmartGuard) THEN "cooldown"
    ELSE IF closure.isSmartGuard THEN AnalyzeFrameCall
    ELSE "instant"

\* line 265
DetectionTimeAfterMotion(now, lastDetection, motion) ==
    IF motion \in {"dropped", "verify", "instant"} THEN now ELSE lastDetection

\* lines 204 and 271: the requests the tick sends
Requests(now, audio, motion) ==
    (IF audio = "verify" THEN {[image |-> Snapshot(now), triggerSource |-> "sound"]} ELSE {})
    \cup (IF motion = "verify" THEN {[image |-> Snapshot(now), triggerSource |-> "motion"]} ELSE {})

\* lines 206-214 and 273-281: the events the tick appends itself
EventsAfterTick(now, audio, motion) ==
    LET afterAudio == IF audio = "instant"
                      THEN Insert(NewEvent(now, Snapshot(now), "Instant Sound Alert"), events)
                      ELSE events
    IN  IF motion = "instant"
        THEN Insert(NewEvent(now, Snapshot(now), "Instant Motion Alert"), afterAudio)
        ELSE afterAudio

Tick(now, max, frame, ctxOk) ==
    /\ animationFrame
    /\ now > clock
    /\ clock' = now
    /\ IF ~(closure.isMonitoring /\ RefsMounted)
       THEN \* line 180: return, nothing is requested again
            /\ animationFrame' = FALSE
            /\ last' = [op |-> "Tick", audio |-> "detached", motion |-> "detached", outcome |-> "-"]
            /\ UNCHANGED <<isMonitoring, stream, isSuspicious, events, activeTab, isMuted,
                           sensitivity, audioSensitivity, isSmartGuard, isAnalyzing,
                           audioLevel, currentMotionLevel, prevFrameRef, lastFrameTimeRef,
                           lastDetectionTimeRef, analyserRef, closure, pending, scoredInSession>>
       ELSE LET audio == AudioOutcome(now, max, ctxOk)
                afterAudio == DetectionTimeAfterAudio(now, audio)
                motion == MotionOutcome(now, afterAudio, frame, ctxOk)
                scored == motion \notin {"skipped", "noctx"}
                requests == Requests(now, audio, motion)
                analyzing == isAnalyzing \/ requests # {}
            IN  /\ audioLevel' = IF analyserRef = Null THEN audioLevel ELSE NormalizedLevel(max)
                /\ lastDetectionTimeRef' = DetectionTimeAfterMotion(now, afterAudio, motion)
                /\ lastFrameTimeRef' = IF motion = "skipped" THEN lastFrameTimeRef ELSE now
                /\ currentMotionLevel' = IF scored /\ prevFrameRef # NoFrame
                                         THEN MotionLevel(frame, prevFrameRef)
                                         ELSE currentMotionLevel
                /\ prevFrameRef' = IF scored THEN frame ELSE prevFrameRef
                /\ events' = EventsAfterTick(now, audio, motion)
                /\ isSuspicious' = (isSuspicious \/ audio = "instant" \/ motion = "instant")
                /\ isAnalyzing' = analyzing
                /\ pending' = pending \cup requests
                /\ EffectRun(isMonitoring, sensitivity, analyzing, isSmartGuard,
                             audioSensitivity, motion # "noctx")
                /\ last' = [op |-> "Tick", audio |-> audio, motion |-> motion, outcome |-> "-"]
                /\ scoredInSession' = (scoredInSession \/ scored)
                /\ UNCHANGED <<isMonitoring, stream, activeTab, isMuted, sensitivity,
                               audioSensitivity, isSmartGuard, analyserRef>>

-----------------------------------------------------------------------------
(* analyzeFrame after the await, lines 155-173: the remote call has ended *)

\* line 158 testing that a result came back instead of its isSuspicious field
PositiveAnyResult(response) == response.kind = "json"

\* a catch block that raises the alarm when the call or the parse fails
PositiveFailOpen(response) == response.kind # "json" \/ response.isSuspicious

\* lines 155-158: the call returned, the text parsed and result.isSuspicious is truthy
Positive(response) == response.kind = "json" /\ response.isSuspicious

\* line 165: result.reason || "Person detected"
ReasonOf(response) == IF response.reason = "" THEN "Person detected" ELSE response.reason

\* lines 158-168 logging every answered candidate with its classification
EventsAfterResolveLoggingAll(now, request, response) ==
    Insert([NewEvent(now, request.image, ReasonOf(response))
               EXCEPT !.isSuspicious = Positive(response)], events)

\* lines 158-168
EventsAfterResolve(now, request, response) ==
    IF Positive(response)
    THEN Insert(NewEvent(now, request.image, ReasonOf(response)), events)
    ELSE events

\* lines 158-159 with the alarm state raised only while the alarm can sound
SuspiciousUnlessMuted(response) == isSuspicious \/ (Positive(response) /\ ~isMuted)

\* lines 158-159 with the alarm state following every answer
SuspiciousFollowsAnswer(response) == Positive(response)

\* lines 158-159
SuspiciousAfterResolve(response) == isSuspicious \/ Positive(response)

\* the flag released at the end of the try block instead of in a finally
AnalyzingWithoutFinally(response) == response.kind # "json"

\* lines 169-173: catch, then finally { setIsAnalyzing(false) } whatever the call did
AnalyzingAfterResolve(response) == FALSE

\* observation: what kind of answer arrived
AnswerKind(response) ==
    IF response.kind # "json" THEN "failed"
    ELSE IF response.isSuspicious THEN "positive" ELSE "negative"

Resolve(now, request, response) ==
    /\ request \in pending
    /\ now >= clock
    /\ clock' = now
    /\ pending' = pending \ {request}
    /\ events' = EventsAfterResolve(now, request, response)
    /\ isSuspicious' = SuspiciousAfterResolve(response)
    /\ isAnalyzing' = AnalyzingAfterResolve(response)
    /\ EffectRun(isMonitoring, sensitivity, AnalyzingAfterResolve(response), isSmartGuard,
                 audioSensitivity, animationFrame)
    /\ last' = [op |-> "Resolve", audio |-> "-", motion |-> "-",
                outcome |-> AnswerKind(response)]
    /\ UNCHANGED <<isMonitoring, stream, activeTab, isMuted, sensitivity, audioSensitivity,
                   isSmartGuard, audioLevel, currentMotionLevel, prevFrameRef,
                   lastFrameTimeRef, lastDetectionTimeRef, analyserRef, scoredInSession>>

-----------------------------------------------------------------------------
(* Commands of the page *)

\* lines 93-113, button at lines 379-384 (shown on the live tab while not monitoring).
\* getUserMedia may reject ("denied"); the audio set-up after the two setters may
\* throw ("audioFailed"); both end in the catch of line 109.
StartCamera(outcome) ==
    /\ activeTab = "live" /\ ~isMonitoring
    /\ stream' = (outcome # "denied")
    /\ isMonitoring' = (outcome # "denied")
    /\ analyserRef' = IF outcome = "ok" THEN "node" ELSE analyserRef
    /\ EffectRun(outcome # "denied", sensitivity, isAnalyzing, isSmartGuard,
                 audioSensitivity, animationFrame)
    /\ last' = [op |-> "StartCamera", audio |-> "-", motion |-> "-", outcome |-> outcome]
    /\ scoredInSession' = FALSE
    /\ UNCHANGED <<isSuspicious, events, activeTab, isMuted, sensitivity, audioSensitivity,
                   isSmartGuard, isAnalyzing, audioLevel, currentMotionLevel, prevFrameRef,
                   lastFrameTimeRef, lastDetectionTimeRef, pending, clock>>

\* lines 115-121: what stopCamera leaves in each ref and state it does not name
PrevFrameAfterStop == prevFrameRef

LastFrameTimeAfterStop == lastFrameTimeRef

LastDetectionTimeAfterStop == lastDetectionTimeRef

AnalyzingAfterStop == isAnalyzing

\* a stop that also empties the history
StopCameraClearingLog ==
    /\ activeTab = "live" /\ isMonitoring
    /\ stream' = FALSE
    /\ isMonitoring' = FALSE
    /\ isSuspicious' = FALSE
    /\ events' = <<>>
    /\ EffectRun(FALSE, sensitivity, isAnalyzing, isSmartGuard, audioSensitivity,
                 animationFrame)
    /\ last' = [op |-> "StopCamera", audio |-> "-", motion |-> "-", outcome |-> "-"]
    /\ scoredInSession' = FALSE
    /\ UNCHANGED <<activeTab, isMuted, sensitivity, audioSensitivity, isSmartGuard,
                   isAnalyzing, prevFrameRef, lastFrameTimeRef, lastDetectionTimeRef,
                   audioLevel, currentMotionLevel, analyserRef, pending, clock>>

\* lines 115-121, button at lines 453-458 (shown on the live tab while monitoring)
StopCamera ==
    /\ activeTab = "live" /\ isMonitoring
    /\ stream' = FALSE
    /\ isMonitoring' = FALSE
    /\ isSuspicious' = FALSE
    /\ prevFrameRef' = PrevFrameAfterStop
    /\ lastFrameTimeRef' = LastFrameTimeAfterStop
    /\ lastDetectionTimeRef' = LastDetectionTimeAfterStop
    /\ isAnalyzing' = AnalyzingAfterStop
    /\ EffectRun(FALSE, sensitivity, AnalyzingAfterStop, isSmartGuard, audioSensitivity,
                 animationFrame)
    /\ last' = Did("StopCamera")
    /\ scoredInSession' = FALSE
    /\ UNCHANGED <<events, activeTab, isMuted, sensitivity, audioSensitivity, isSmartGuard,
                   audioLevel, currentMotionLevel, analyserRef, pending, clock>>

\* a dismissal that also empties the history
DismissClearingLog ==
    /\ activeTab = "live" /\ isMonitoring /\ isSuspicious
    /\ isSuspicious' = FALSE
    /\ events' = <<>>
    /\ last' = [op |-> "Dismiss", audio |-> "-", motion |-> "-", outcome |-> "-"]
    /\ UNCHANGED <<isMonitoring, stream, activeTab, isMuted, sensitivity,
                   audioSensitivity, isSmartGuard, isAnalyzing, audioLevel,
                   currentMotionLevel, prevFrameRef, lastFrameTimeRef,
                   lastDetectionTimeRef, analyserRef, closure, animationFrame, pending, clock,
                   scoredInSession>>

\* lines 476-481: the Dismiss button of the alarm overlay
Dismiss ==
    /\ activeTab = "live" /\ isMonitoring /\ isSuspicious
    /\ isSuspicious' = FALSE
    /\ last' = Did("Dismiss")
    /\ UNCHANGED <<isMonitoring, stream, events, activeTab, isMuted, sensitivity,
                   audioSensitivity, isSmartGuard, isAnalyzing, audioLevel,
                   currentMotionLevel, prevFrameRef, lastFrameTimeRef,
                   lastDetectionTimeRef, analyserRef, closure, animationFrame, pending, clock,
                   scoredInSession>>

\* lines 634-639: the Clear Logs button of the history tab
ClearLogs ==
    /\ activeTab = "history"
    /\ events' = <<>>
    /\ last' = Did("ClearLogs")
    /\ UNCHANGED <<isMonitoring, stream, isSuspicious, activeTab, isMuted, sensitivity,
                   audioSensitivity, isSmartGuard, isAnalyzing, audioLevel,
                   currentMotionLevel, prevFrameRef, lastFrameTimeRef,
                   lastDetectionTimeRef, analyserRef, closure, animationFrame, pending, clock,
                   scoredInSession>>

\* lines 316-333: the tab buttons; leaving the live tab unmounts video and canvas
SetActiveTab(tab) ==
    /\ tab # activeTab
    /\ activeTab' = tab
    /\ last' = Did("SetActiveTab")
    /\ UNCHANGED <<isMonitoring, stream, isSuspicious, events, isMuted, sensitivity,
                   audioSensitivity, isSmartGuard, isAnalyzing, audioLevel,
                   currentMotionLevel, prevFrameRef, lastFrameTimeRef,
                   lastDetectionTimeRef, analyserRef, closure, animationFrame, pending, clock,
                   scoredInSession>>

\* lines 337-342
ToggleMuted ==
    /\ isMuted' = ~isMuted
    /\ last' = Did("ToggleMuted")
    /\ UNCHANGED <<isMonitoring, stream, isSuspicious, events, activeTab, sensitivity,
                   audioSensitivity, isSmartGuard, isAnalyzing, audioLevel,
                   currentMotionLevel, prevFrameRef, lastFrameTimeRef,
                   lastDetectionTimeRef, analyserRef, closure, animationFrame, pending, clock,
                   scoredInSession>>

\* lines 519-530: isSmartGuard is no dependency of the effect
ToggleSmartGuard ==
    /\ activeTab = "live"
    /\ isSmartGuard' = ~isSmartGuard
    /\ last' = Did("ToggleSmartGuard")
    /\ UNCHANGED <<isMonitoring, stream, isSuspicious, events, activeTab, isMuted,
                   sensitivity, audioSensitivity, isAnalyzing, audioLevel,
                   currentMotionLevel, prevFrameRef, lastFrameTimeRef,
                   lastDetectionTimeRef, analyserRef, closure, animationFrame, pending, clock,
                   scoredInSession>>

\* lines 539-546: sensitivity is a dependency of the effect
SetSensitivity(value) ==
    /\ activeTab = "live"
    /\ value # sensitivity
    /\ sensitivity' = value
    /\ EffectRun(isMonitoring, value, isAnalyzing, isSmartGuard, audioSensitivity,
                 animationFrame)
    /\ last' = Did("SetSensitivity")
    /\ UNCHANGED <<isMonitoring, stream, isSuspicious, events, activeTab, isMuted,
                   audioSensitivity, isSmartGuard, isAnalyzing, audioLevel,
                   currentMotionLevel, prevFrameRef, lastFrameTimeRef,
                   lastDetectionTimeRef, analyserRef, pending, clock, scoredInSession>>

\* lines 554-561: audioSensitivity is no dependency of the effect
SetAudioSensitivity(value) ==
    /\ activeTab = "live"
    /\ value # audioSensitivity
    /\ audioSensitivity' = value
    /\ last' = Did("SetAudioSensitivity")
    /\ UNCHANGED <<isMonitoring, stream, isSuspicious, events, activeTab, isMuted,
                   sensitivity, isSmartGuard, isAnalyzing, audioLevel,
                   currentMotionLevel, prevFrameRef, lastFrameTimeRef,
                   lastDetectionTimeRef, analyserRef, closure, animationFrame, pending, clock,
                   scoredInSession>>

-----------------------------------------------------------------------------

\* line 138: the awaited remote call ends, at the current clock reading
Answer == \E request \in pending, response \in Responses : Resolve(clock, request, response)

\* The pipeline: the tick loop, the verifier's answers, the session commands, the
\* alarm's dismissal and the smart-guard switch
Next ==
    \/ \E now \in Times, max \in PeakInputs, frame \in FrameInputs, ctxOk \in BOOLEAN :
          Tick(now, max, frame, ctxOk)
    \/ Answer
    \/ \E outcome \in {"ok", "denied", "audioFailed"} : StartCamera(outcome)
    \/ StopCamera
    \/ Dismiss
    \/ ToggleSmartGuard

Spec == Init /\ [][Next]_vars

\* The pipeline when every remote call ends: the promise awaited at line 138 is
\* settled (fulfilled or rejected) some time after the request was sent
FairSpec == Spec /\ WF_vars(Answer)

-----------------------------------------------------------------------------
(* A long run, to fill the event log past its capacity: the ticks come one
   millisecond after each instant-mode cooldown window ends, the room is loud and
   the picture changes at every tick, each verification is answered positively
   before the next tick, smart guard is switched off between sessions, and the
   session, the tabs and the log are operated freely in between. *)

LogTimes == {Epoch + 1 + k * (CooldownInstant + 1) : k \in 0..MaxLogTicks}

NextLogTime(now) == now \in LogTimes /\ \A t \in LogTimes : t > clock => now <= t

ChangedFrame == IF prevFrameRef = Uniform(0) THEN Patch(255) ELSE Uniform(0)

LogNext ==
    \/ (~isMonitoring /\ isSmartGuard /\ ToggleSmartGuard)
    \/ StartCamera("ok")
    \/ StopCamera
    \/ \E now \in LogTimes :
          /\ NextLogTime(now) /\ RefsMounted /\ pending = {}
          /\ Tick(now, 128, ChangedFrame, TRUE)
    \/ \E request \in pending, response \in Responses :
          Positive(response) /\ Resolve(clock, request, response)
    \/ \E tab \in {"live", "history"} : SetActiveTab(tab)
    \/ ClearLogs

LogSpec == Init /\ [][LogNext]_vars

-----------------------------------------------------------------------------
(* The scenario of one motion candidate per cooldown window: default settings
   (sensitivity 85, smart guard on), a quiet room, a session whose first frame is
   black; 100 ms later, at the scenario's time 0, a tenth of the picture has
   changed; at 500 ms and at 1200 ms nine tenths have.  Frames in between show
   no change.  The verifier answers whenever and however it does, but before the
   tick at 1200 ms; the alarm is dismissed and muted freely. *)

ScenarioOrigin == Epoch + 1 + MotionInterval

ScenarioMarks == {0 - MotionInterval, 0, 250, 500, 750, 1200}

ScenarioTimes == {ScenarioOrigin + m : m \in ScenarioMarks}

NextScenarioTime(now) == now \in ScenarioTimes /\ \A t \in ScenarioTimes : t > clock => now <= t

\* the number of sampled pixels, and a tenth of them
Samples == DataLength \div 16

Tenth == (Samples + 9) \div 10

Black == Uniform(0)

TenthLit == Lit(Tenth)

AllLit == Lit(Samples)

ScenarioFrame(now) ==
    IF now = ScenarioOrigin - MotionInterval THEN Black
    ELSE IF now = ScenarioOrigin THEN TenthLit
    ELSE IF now = ScenarioOrigin + 500 THEN AllLit
    ELSE IF now = ScenarioOrigin + 1200 THEN TenthLit
    ELSE prevFrameRef

ScenarioNext ==
    \/ StartCamera("ok")
    \/ \E now \in ScenarioTimes :
          /\ NextScenarioTime(now)
          /\ now = ScenarioOrigin + 1200 => pending = {}
          /\ Tick(now, 0, ScenarioFrame(now), TRUE)
    \/ Answer
    \/ Dismiss
    \/ ToggleMuted

ScenarioSpec == Init /\ [][ScenarioNext]_vars

-----------------------------------------------------------------------------
(* Motion scoring over many raster pairs and every slider position: a session in
   a quiet room whose two ticks come 100 ms apart and draw any of a set of rasters;
   the sensitivity slider is moved one step at a time, at any moment. *)

\* A raster that differs from black only in pixels detectMotion does not sample
Unsampled == [k \in 1..DataLength |-> IF k % 4 = 0 THEN 255 ELSE IF (k - 1) % 16 < 4 THEN 0 ELSE 255]

\* Black with 0, 1, 2, 4 or all sampled pixels white; dark greys at and just over
\* the noise floor of 45 (3 * 15 and 3 * 16); white; and Unsampled
RasterInputs ==
    {Lit(count) : count \in {0, 1, 2, 4, Samples}}
       \cup {Uniform(15), Uniform(16), Uniform(255), Unsampled}

\* The tick that draws the first frame and the tick that scores the second
ScoreTimes == {Epoch + 1, Epoch + 1 + MotionInterval}

SliderSteps == {value \in {sensitivity - 1, sensitivity + 1} : value >= 1 /\ value <= 99}

ScoreNext ==
    \/ StartCamera("ok")
    \/ \E now \in ScoreTimes, frame \in RasterInputs : Tick(now, 0, frame, TRUE)
    \/ \E value \in SliderSteps : SetSensitivity(value)

ScoreSpec == Init /\ [][ScoreNext]_vars

-----------------------------------------------------------------------------
(* The scenario's first two ticks with the mute button, in a quiet or a
   loud room, in either mode (smart guard is switched between sessions), with the
   session stopped and started, the verifier answering, the alarm dismissed, and
   the mute button pressed at any moment. *)

MuteTimes == {ScenarioOrigin - MotionInterval, ScenarioOrigin}

NextMuteTime(now) == now \in MuteTimes /\ \A t \in MuteTimes : t > clock => now <= t

MuteNext ==
    \/ ToggleMuted
    \/ (~isMonitoring /\ ToggleSmartGuard)
    \/ StartCamera("ok")
    \/ StopCamera
    \/ \E now \in MuteTimes, max \in PeakInputs :
          NextMuteTime(now) /\ Tick(now, max, ScenarioFrame(now), TRUE)
    \/ Answer
    \/ Dismiss

MuteSpec == Init /\ [][MuteNext]_vars

-----------------------------------------------------------------------------
(* The scenario's timeline with the settings panel: the same ticks in a quiet or
   a loud room, the verifier answering, and the smart-guard switch and the two
   sliders operated at any moment, during the session too. *)

ConfigNext ==
    \/ StartCamera("ok")
    \/ \E now \in ScenarioTimes, max \in PeakInputs :
          NextScenarioTime(now) /\ Tick(now, max, ScenarioFrame(now), TRUE)
    \/ Answer
    \/ ToggleSmartGuard
    \/ \E value \in AudioSensitivityInputs : SetAudioSensitivity(value)
    \/ \E value \in SensitivityInputs : SetSensitivity(value)

ConfigSpec == Init /\ [][ConfigNext]_vars

-----------------------------------------------------------------------------
(* The whole page over two ticks of the scenario: every command and every
   setting of the page operated at any moment (session, tabs, Clear Logs,
   dismissal, mute, smart guard, both sliders), a quiet or a loud room, the
   drawing context given or refused, the verifier answering whenever and however
   it does. *)

\* the first tick of the scenario and its last, more than a cooldown window later
PageTimes == {ScenarioOrigin - MotionInterval, ScenarioOrigin + 1200}

PageNext ==
    \/ \E now \in PageTimes, max \in PeakInputs, ctxOk \in BOOLEAN :
          Tick(now, max, ScenarioFrame(now), ctxOk)
    \/ Answer
    \/ \E outcome \in {"ok", "denied", "audioFailed"} : StartCamera(outcome)
    \/ StopCamera
    \/ Dismiss
    \/ ClearLogs
    \/ \E tab \in {"live", "history"} : SetActiveTab(tab)
    \/ ToggleMuted
    \/ ToggleSmartGuard
    \/ \E value \in SensitivityInputs : SetSensitivity(value)
    \/ \E value \in AudioSensitivityInputs : SetAudioSensitivity(value)

PageSpec == Init /\ [][PageNext]_vars

-----------------------------------------------------------------------------
(* Ticks around the motion cadence: the host redraws 99, 100, 199 and 200 ms after
   the first tick (and may skip any of them), in a quiet or a loud room, with a
   changing picture, the drawing context given or refused, the verifier
   answering, the session stopped and started. *)

CadenceMarks == {0, MotionInterval - 1, MotionInterval, 2 * MotionInterval - 1, 2 * MotionInterval}

CadenceTimes == {Epoch + 1 + m : m \in CadenceMarks}

CadenceNext ==
    \/ StartCamera("ok")
    \/ StopCamera
    \/ \E now \in CadenceTimes, max \in PeakInputs, frame \in FrameInputs, ctxOk \in BOOLEAN :
          Tick(now, max, frame, ctxOk)
    \/ Answer

CadenceSpec == Init /\ [][CadenceNext]_vars

-----------------------------------------------------------------------------
(* Claims *)

TickAccepted(outcome) == outcome \in {"verify", "dropped", "instant"}

\* C1: at most one verification request is outstanding in every reachable state;
\* a candidate accepted in smart-guard mode while one is outstanding sends no
\* second request, and the tick that dropped it leaves nothing behind to send later
\* (the outstanding requests are the only store of requests there is).
C1_SingleFlight ==
    /\ Cardinality(pending) <= 1
    /\ (last.op = "Tick" /\ "dropped" \in {last.audio, last.motion})
          => (Cardinality(pending) = 1 /\ \A r \in pending : r.image.capturedAt < clock)

\* C1 witness: a tick has just dropped a candidate while the earlier request is out
C1_Witness ==
    /\ last.op = "Tick"
    /\ "dropped" \in {last.audio, last.motion}
    /\ Cardinality(pending) = 1
    /\ lastDetectionTimeRef = clock

\* C5: a step in which the verifier answers isSuspicious = false appends no event
\* and leaves the alarm state as it was.
C5_NegativeChangesNothing ==
    [][(last'.op = "Resolve" /\ last'.outcome = "negative")
         => (events' = events /\ isSuspicious' = isSuspicious)]_vars

\* C5 witness: a negative answer has just arrived with smart guard on, while an
\* earlier alert is still showing and logged
C5_Witness ==
    /\ last.op = "Resolve" /\ last.outcome = "negative"
    /\ isSmartGuard /\ isSuspicious /\ Len(events) > 0

\* C6: a step in which the verification fails (the call throws or the text does
\* not parse) appends no event, leaves the alarm state and the session as they
\* were with the tick loop alive, and leaves no request behind; a request is only
\* ever sent by a tick, for the snapshot that tick has just taken.
C6_FailureIsNegative ==
    /\ [][(last'.op = "Resolve" /\ last'.outcome = "failed")
            => /\ events' = events
               /\ isSuspicious' = isSuspicious
               /\ isMonitoring' = isMonitoring /\ stream' = stream
               /\ animationFrame' = isMonitoring
               /\ pending' = {}]_vars
    /\ [][\A r \in pending' \ pending :
            last'.op = "Tick" /\ r.image.capturedAt = clock' /\ clock' > clock]_vars

\* C6 witness: a verification has just failed during a running session
C6_Witness ==
    /\ last.op = "Resolve" /\ last.outcome = "failed"
    /\ isMonitoring /\ animationFrame /\ pending = {} /\ events = <<>>

\* C7: the in-flight flag is set while a verification is outstanding, every end
\* of a verification (positive, negative or failed) clears it, and, the remote
\* call ending, every state with the flag set is followed by one with it clear.
C7_FlagReleased ==
    /\ [](pending # {} => isAnalyzing)
    /\ [][last'.op = "Resolve" => ~isAnalyzing']_vars
    /\ (isAnalyzing ~> ~isAnalyzing)

\* C7 witness: the flag is clear again after a verification that failed
C7_Witness ==
    /\ last.op = "Resolve" /\ last.outcome = "failed"
    /\ ~isAnalyzing /\ pending = {}

\* C2, stated with the smart-guard setting current at the tick: a tick accepts a
\* candidate only when more than the cooldown window of the current setting
\* (1000 ms on, 300 ms off) has passed since the last accepted candidate, and
\* rejects one for cooldown only when that much has not passed.
C2_CooldownOfCurrentMode ==
    [][last'.op = "Tick" =>
         /\ TickAccepted(last'.audio)
               => CooldownElapsed(clock', lastDetectionTimeRef, isSmartGuard)
         /\ last'.audio = "cooldown"
               => ~CooldownElapsed(clock', lastDetectionTimeRef, isSmartGuard)
         /\ TickAccepted(last'.motion)
               => /\ ~TickAccepted(last'.audio)
                  /\ CooldownElapsed(clock', lastDetectionTimeRef, isSmartGuard)
         /\ last'.motion = "cooldown"
               => \/ TickAccepted(last'.audio)
                  \/ ~CooldownElapsed(clock', lastDetectionTimeRef, isSmartGuard)]_vars

\* C3: the log never holds more than 50 events and is ordered newest first; every
\* step leaves the log as it was, empties it, or puts one new event at its head
\* and drops only the oldest event, and that only when 50 were already held.
C3_LogBounded ==
    /\ [](/\ Len(events) <= MaxEvents
          /\ \A i \in 1..(Len(events) - 1) :
                events[i].timestamp >= events[i + 1].timestamp)
    /\ [][\/ events' = events
          \/ events' = <<>>
          \/ /\ events' # <<>>
             /\ events'[1].timestamp = clock'
             /\ Tail(events') = IF Len(events) = MaxEvents
                                THEN SubSeq(events, 1, MaxEvents - 1)
                                ELSE events]_vars

\* C3 witness: an insertion has just pushed the log past its capacity: it holds 50
\* events, the newest of this tick at the head, and the event of the first tick,
\* which had been logged, is no longer there
C3_Witness ==
    /\ last.op = "Tick" /\ last.audio = "instant"
    /\ Len(events) = MaxEvents
    /\ events[1].timestamp = clock
    /\ clock = Epoch + 1 + MaxEvents * (CooldownInstant + 1)
    /\ \A i \in 1..Len(events) : events[i].timestamp = clock - (i - 1) * (CooldownInstant + 1)

\* C4, stated with the smart-guard setting current at the tick: while smart guard
\* is off, a tick that accepts a candidate starts no verification, sets the alarm
\* and puts exactly one event with the fixed label of its trigger at the head of
\* the log.
C4_InstantWhenOff ==
    [][(last'.op = "Tick" /\ ~isSmartGuard
          /\ (TickAccepted(last'.audio) \/ TickAccepted(last'.motion)))
         => /\ pending' = pending
            /\ isAnalyzing' = isAnalyzing
            /\ isSuspicious'
            /\ events' # <<>>
            /\ Tail(events') = SubSeq(events, 1, Len(events') - 1)
            /\ events'[1].reason = IF TickAccepted(last'.audio)
                                   THEN "Instant Sound Alert"
                                   ELSE "Instant Motion Alert"]_vars

\* C8: a verification that ends while no session is running appends no event and
\* does not raise the alarm.
C8_DiscardedAfterStop ==
    [][(last'.op = "Resolve" /\ ~isMonitoring)
         => (events' = events /\ isSuspicious' = isSuspicious)]_vars

\* C9: right after the session is stopped the previous frame is absent, both
\* scores are zero, the last-tick time and the cooldown clock are back at zero,
\* no verification is marked in flight and the alarm is idle.
C9_StopClearsRunState ==
    last.op = "StopCamera"
       => /\ prevFrameRef = NoFrame
          /\ currentMotionLevel = 0
          /\ audioLevel = 0
          /\ lastFrameTimeRef = 0
          /\ lastDetectionTimeRef = 0
          /\ ~isAnalyzing
          /\ ~isSuspicious

\* C10: the first tick of a session that scores motion finds no previous frame,
\* leaves the motion score at zero and raises no motion candidate.
C10_FirstTickScoresNothing ==
    [][(last'.op = "Tick" /\ ~scoredInSession /\ scoredInSession')
         => /\ prevFrameRef = NoFrame
            /\ last'.motion = "first"
            /\ currentMotionLevel' = 0]_vars

C12_DismissKeepsLog ==
    [][last'.op = "Dismiss"
         => /\ isSuspicious /\ ~isSuspicious' /\ ~AlarmPlaying'
            /\ events' = events]_vars

\* C12 witness: the alarm has just been dismissed with an event in the log
C12_Witness ==
    /\ last.op = "Dismiss" /\ ~isSuspicious /\ Len(events) > 0

\* C13: stopping and starting a session leave the event log as it was; Clear Logs
\* leaves it empty; every other step keeps every entry in its order, except that
\* an insertion into a log of 50 drops the oldest one.
C13_LogPersists ==
    [][/\ last'.op \in {"StopCamera", "StartCamera"} => events' = events
       /\ last'.op = "ClearLogs" => events' = <<>>
       /\ last'.op # "ClearLogs"
            => \/ events' = events
               \/ Len(events) < MaxEvents /\ Len(events') = Len(events) + 1
                    /\ Tail(events') = events
               \/ Len(events) = MaxEvents /\ Len(events') = MaxEvents
                    /\ Tail(events') = SubSeq(events, 1, MaxEvents - 1)]_vars

\* C13 witness: a session has just been started again with the full log of the
\* sessions before it still there
C13_Witness ==
    /\ last.op = "StartCamera" /\ isMonitoring
    /\ Len(events) = MaxEvents

\* C14: in every tick the audio part goes first: when it accepts its candidate the
\* cooldown clock is the tick's time and the motion part, if its score is over the
\* threshold, rejects its candidate for cooldown; the motion part accepts only
\* when the audio part had no candidate; so a tick never accepts twice, and it
\* sends at most one verification or logs at most one instant event, never both.
C14_OneAcceptancePerTick ==
    [][last'.op = "Tick"
         => /\ TickAccepted(last'.audio)
                 => /\ lastDetectionTimeRef' = clock'
                    /\ last'.motion \in {"skipped", "noctx", "first", "still", "cooldown"}
            /\ TickAccepted(last'.motion) => last'.audio \in {"off", "quiet"}
            /\ Cardinality(pending' \ pending)
                  + (IF events' = events THEN 0 ELSE IF Tail(events') = events THEN 1 ELSE 2)
                  <= 1]_vars

\* C14 witness: a tick in which the sound was loud and the picture had changed
\* has accepted the audio candidate and rejected the motion candidate for cooldown
C14_Witness ==
    /\ last.op = "Tick"
    /\ TickAccepted(last.audio) /\ last.motion = "cooldown"
    /\ lastDetectionTimeRef = clock
    /\ MotionAboveThreshold(currentMotionLevel, sensitivity)

\* C15: right after a start that failed, at the media request or at the audio
\* set-up after it, no session is running: the monitoring flag is false, no stream
\* is held and no tick is scheduled.
C15_FailedStartStartsNothing ==
    (last.op = "StartCamera" /\ last.outcome # "ok")
       => (~isMonitoring /\ ~stream /\ ~animationFrame)

\* C16: the motion score is never below 0 nor above 100, and a tick that scores a
\* raster identical to the previous one sets the score to exactly 0.
C16_ScoreRange ==
    /\ [](currentMotionLevel >= 0 /\ currentMotionLevel <= 100 * CanvasWidth * CanvasHeight)
    /\ [][(last'.op = "Tick" /\ last'.motion \notin {"skipped", "noctx", "first", "detached"}
            /\ prevFrameRef' = prevFrameRef)
           => currentMotionLevel' = 0]_vars

\* C16 witness: a tick has just scored a raster pair that differs in every sampled
\* pixel: the score is 100
C16_Witness ==
    /\ last.op = "Tick" /\ last.motion \notin {"skipped", "noctx", "first", "detached"}
    /\ currentMotionLevel = 100 * CanvasWidth * CanvasHeight
    /\ prevFrameRef = Uniform(255)

\* C17: the slider keeps the sensitivity in 1..99; twice the motion threshold is
\* the larger of 1 and 100 - sensitivity, hence at least 1 (the threshold at least
\* 0.5); and a tick that scores a raster pair raises a motion candidate (accepted
\* or rejected for cooldown) exactly when the score is strictly over the threshold.
C17_ThresholdGate ==
    LET twiceThreshold == IF 100 - sensitivity > 1 THEN 100 - sensitivity ELSE 1
        raised == last.motion \in {"cooldown", "verify", "dropped", "instant"}
    IN  /\ sensitivity \in 1..99
        /\ twiceThreshold >= 1
        /\ (last.op = "Tick" /\ last.motion \notin {"skipped", "noctx", "first", "detached"})
              => (raised <=> 2 * currentMotionLevel > twiceThreshold * CanvasWidth * CanvasHeight)

\* C17 witness: at sensitivity 80 a tick has scored exactly the threshold of 10
\* percent and raised no candidate
C17_Witness ==
    /\ last.op = "Tick" /\ last.motion = "still"
    /\ sensitivity = 80
    /\ currentMotionLevel = 10 * CanvasWidth * CanvasHeight

\* Everything but the muted setting and the observation of the last step
Unmuted ==
    <<isMonitoring, stream, isSuspicious, events, activeTab, sensitivity, audioSensitivity,
      isSmartGuard, isAnalyzing, audioLevel, currentMotionLevel, prevFrameRef,
      lastFrameTimeRef, lastDetectionTimeRef, analyserRef, closure, animationFrame, pending,
      clock, scoredInSession>>

ClockDomain == {0, Epoch} \cup MuteTimes

RequestDomain ==
    [image : {Snapshot(t) : t \in MuteTimes}, triggerSource : {"sound", "motion"}]

ReasonDomain ==
    {"Instant Sound Alert", "Instant Motion Alert", "Person detected", "Empty room"}

\* the scores the scenario's raster pairs can have
LevelDomain == {d * 400 : d \in {0, Tenth, Samples - Tenth, Samples}}

\* what the effect captures when it runs
Rendered ==
    [isMonitoring |-> isMonitoring, sensitivity |-> sensitivity, isAnalyzing |-> isAnalyzing,
     isSmartGuard |-> isSmartGuard, audioSensitivity |-> audioSensitivity]

\* The step A leaves the same value in every variable of Unmuted whether it is
\* taken before the mute button is pressed or after.  A has one outcome, so
\* comparing variable by variable compares the outcomes, and a flag that is not
\* true after A is false.
SameOutcome(A) ==
    /\ (ENABLED (A /\ isMonitoring')) = (ENABLED (A /\ isMonitoring'))'
    /\ (ENABLED (A /\ stream')) = (ENABLED (A /\ stream'))'
    /\ (ENABLED (A /\ isSuspicious')) = (ENABLED (A /\ isSuspicious'))'
    /\ (ENABLED (A /\ isSmartGuard')) = (ENABLED (A /\ isSmartGuard'))'
    /\ (ENABLED (A /\ isAnalyzing')) = (ENABLED (A /\ isAnalyzing'))'
    /\ (ENABLED (A /\ animationFrame')) = (ENABLED (A /\ animationFrame'))'
    /\ (ENABLED (A /\ scoredInSession')) = (ENABLED (A /\ scoredInSession'))'
    /\ (ENABLED (A /\ activeTab' = "live")) = (ENABLED (A /\ activeTab' = "live"))'
    /\ (ENABLED (A /\ analyserRef' = Null)) = (ENABLED (A /\ analyserRef' = Null))'
    /\ (ENABLED (A /\ <<sensitivity', audioSensitivity'>> = <<sensitivity, audioSensitivity>>))
          = (ENABLED (A /\ <<sensitivity', audioSensitivity'>> = <<sensitivity, audioSensitivity>>))'
    /\ (ENABLED (A /\ closure' = closure)) = (ENABLED (A /\ closure' = closure))'
    /\ (ENABLED (A /\ closure' = Rendered')) = (ENABLED (A /\ closure' = Rendered'))'
    /\ (ENABLED (A /\ events' = events)) = (ENABLED (A /\ events' = events))'
    /\ (ENABLED (A /\ events' # <<>> /\ Tail(events') = events))
          = (ENABLED (A /\ events' # <<>> /\ Tail(events') = events))'
    /\ \A t \in ClockDomain :
          /\ (ENABLED (A /\ clock' = t)) = (ENABLED (A /\ clock' = t))'
          /\ (ENABLED (A /\ lastFrameTimeRef' = t)) = (ENABLED (A /\ lastFrameTimeRef' = t))'
          /\ (ENABLED (A /\ lastDetectionTimeRef' = t))
                = (ENABLED (A /\ lastDetectionTimeRef' = t))'
          /\ (ENABLED (A /\ events' # <<>> /\ events'[1].timestamp = t))
                = (ENABLED (A /\ events' # <<>> /\ events'[1].timestamp = t))'
          /\ (ENABLED (A /\ events' # <<>> /\ events'[1].image = Snapshot(t)))
                = (ENABLED (A /\ events' # <<>> /\ events'[1].image = Snapshot(t)))'
    /\ \A r \in ReasonDomain :
          (ENABLED (A /\ events' # <<>> /\ events'[1].reason = r))
            = (ENABLED (A /\ events' # <<>> /\ events'[1].reason = r))'
    /\ \A m \in PeakInputs :
          (ENABLED (A /\ audioLevel' = NormalizedLevel(m)))
            = (ENABLED (A /\ audioLevel' = NormalizedLevel(m)))'
    /\ \A level \in LevelDomain :
          (ENABLED (A /\ currentMotionLevel' = level))
            = (ENABLED (A /\ currentMotionLevel' = level))'
    /\ \A f \in {NoFrame, Black, TenthLit, AllLit} :
          (ENABLED (A /\ prevFrameRef' = f)) = (ENABLED (A /\ prevFrameRef' = f))'
    /\ \A q \in RequestDomain :
          (ENABLED (A /\ q \in pending')) = (ENABLED (A /\ q \in pending'))'

\* The step A can be taken before the mute button is pressed exactly when it can
\* be taken after, with the same outcome
Unaffected(A) ==
    /\ (ENABLED A) = (ENABLED A)'
    /\ (ENABLED A) => SameOutcome(A)

\* C18: pressing the mute button changes nothing but the muted setting, in
\* particular not the alarm state, the cooldown clock or the event log; no other
\* step changes the muted setting; and every step of the page or the pipeline
\* (start, stop, dismiss, smart-guard switch, tick, verifier answer) is possible
\* and has the same outcome whether the button was pressed before it or not.  So
\* two runs with the same inputs that differ in the muted setting alone go through
\* the same states otherwise.  The alarm state is raised while muted too.
C18_MutedOnlySilences ==
    /\ [][last'.op # "ToggleMuted" => isMuted' = isMuted]_vars
    /\ [][(last'.op = "ToggleMuted" /\ ~isMuted)
            => /\ isMuted' /\ Unmuted' = Unmuted
               /\ AlarmPlaying' = FALSE
               /\ \A outcome \in {"ok", "denied", "audioFailed"} :
                     Unaffected(StartCamera(outcome))
               /\ Unaffected(StopCamera)
               /\ Unaffected(Dismiss)
               /\ Unaffected(ToggleSmartGuard)
               /\ \A now \in MuteTimes, max \in PeakInputs :
                     Unaffected(NextMuteTime(now) /\ Tick(now, max, ScenarioFrame(now), TRUE))
               /\ \A request \in pending, response \in Responses :
                     Unaffected(Resolve(clock, request, response))]_vars

\* C18 witness: the alarm state is Alerting while muted, after a positive answer
\* that arrived while muted: no sound plays
C18_Witness ==
    /\ last.op = "Resolve" /\ last.outcome = "positive"
    /\ isMuted /\ isSuspicious /\ ~AlarmPlaying
    /\ Len(events) > 0

\* C19: every event in the log carries as its timestamp the time at which its
\* snapshot was captured.
C19_TimestampIsCaptureTime ==
    \A i \in 1..Len(events) : events[i].timestamp = events[i].image.capturedAt

\* C20: every tick gates the sound with the settings as they are at that tick:
\* the audio candidate is raised exactly when the level is over 100 minus the
\* current audio sensitivity, it is rejected for cooldown exactly when no more
\* than the window of the current smart-guard setting has passed, and when
\* accepted it is logged at once exactly when smart guard is currently off.
C20_CurrentConfiguration ==
    [][(last'.op = "Tick" /\ last'.audio \notin {"detached", "off"})
         => /\ (last'.audio # "quiet") <=> (audioLevel' > (100 - audioSensitivity) * 255)
            /\ last'.audio = "cooldown"
                  => clock' - lastDetectionTimeRef <= CooldownWindow(isSmartGuard)
            /\ TickAccepted(last'.audio)
                  => /\ clock' - lastDetectionTimeRef > CooldownWindow(isSmartGuard)
                     /\ (last'.audio = "instant") <=> ~isSmartGuard]_vars

\* C21: every tick that runs while a session is active leaves a following tick
\* scheduled, whichever path it took (audio only, motion, no drawing context,
\* video and canvas not mounted), so the tick loop stops only when the session does.
C21_TickReschedules ==
    [][(last'.op = "Tick" /\ isMonitoring') => animationFrame']_vars

\* C22: a tick changes the previous raster or the motion score only when at least
\* 100 ms have passed since the last tick that went past the cadence gate, and it
\* then records its own time as the last-tick time, which never goes back: so two
\* ticks that update the raster are at least 100 ms apart.  A tick that comes
\* sooner leaves the previous raster, the motion score and the last-tick time as
\* they were, and still runs the audio part: with an analyser it updates the audio
\* level and raises the audio candidate exactly when the level is over the
\* threshold the tick reads.
C22_MotionCadence ==
    /\ [](lastFrameTimeRef <= clock)
    /\ [][lastFrameTimeRef' >= lastFrameTimeRef]_vars
    /\ [][(prevFrameRef' # prevFrameRef \/ currentMotionLevel' # currentMotionLevel
             \/ lastFrameTimeRef' # lastFrameTimeRef)
            => /\ last'.op = "Tick"
               /\ clock' - lastFrameTimeRef >= MotionInterval
               /\ lastFrameTimeRef' = clock']_vars
    /\ [][(last'.op = "Tick" /\ last'.motion # "detached"
             /\ clock' - lastFrameTimeRef < MotionInterval)
            => /\ last'.motion = "skipped"
               /\ prevFrameRef' = prevFrameRef
               /\ currentMotionLevel' = currentMotionLevel
               /\ lastFrameTimeRef' = lastFrameTimeRef
               /\ animationFrame'
               /\ analyserRef # Null
                     => /\ last'.audio \notin {"off", "detached"}
                        /\ (last'.audio # "quiet")
                              <=> (audioLevel' > (100 - closure.audioSensitivity) * 255)]_vars

\* C22 witness: a tick 99 ms after the last motion tick has skipped the motion
\* part, kept the raster, and accepted a sound candidate
C22_Witness ==
    /\ last.op = "Tick" /\ last.motion = "skipped" /\ last.audio = "verify"
    /\ clock - lastFrameTimeRef = MotionInterval - 1
    /\ prevFrameRef # NoFrame
    /\ audioLevel = NormalizedLevel(128)

\* C23: the alarm state goes from Alerting to Idle only in a step that is a
\* dismissal or a stop of the session; ticks, accepted candidates, answers of the
\* verifier, changes of the settings, the tabs and Clear Logs leave it Alerting.
C23_AlertingUntilDismissOrStop ==
    [][(isSuspicious /\ ~isSuspicious') => last'.op \in {"Dismiss", "StopCamera"}]_vars

\* C23 witness: the alarm is still Alerting after a verification that came back
\* negative, the log having been cleared before
C23_Witness ==
    /\ last.op = "Resolve" /\ last.outcome = "negative"
    /\ isSuspicious /\ events = <<>>

\* C24: stopping the session cancels the scheduled tick: while no session runs no
\* tick is scheduled, and no step is a tick, sends a verification, or changes the
\* cooldown clock, the last-tick time or the previous raster, until a session is
\* started again.
C24_NoTickAfterStop ==
    /\ [](~isMonitoring => ~animationFrame)
    /\ [][~isMonitoring
            => /\ last'.op # "Tick"
               /\ pending' \subseteq pending
               /\ lastDetectionTimeRef' = lastDetectionTimeRef
               /\ lastFrameTimeRef' = lastFrameTimeRef
               /\ prevFrameRef' = prevFrameRef]_vars

\* C24 witness: a session has just been stopped right after a tick that drew a
\* frame, sent a verification and scheduled the next tick; that tick is cancelled
C24_Witness ==
    /\ last.op = "StopCamera" /\ ~isMonitoring /\ ~animationFrame
    /\ lastFrameTimeRef = clock /\ prevFrameRef # NoFrame /\ pending # {}

\* C25: every entry of the event log has isSuspicious = true; a step leaves the
\* entries it keeps exactly as they were (it keeps the log, empties it, or puts
\* one entry in front of the old ones); and a verification that does not come
\* back positive adds no entry.
C25_OnlySuspiciousLogged ==
    /\ [](\A i \in 1..Len(events) : events[i].isSuspicious = TRUE)
    /\ [][\/ events' = events
          \/ events' = <<>>
          \/ /\ Len(events') >= 1
             /\ \A i \in 2..Len(events') : events'[i] = events[i - 1]]_vars
    /\ [][(last'.op = "Resolve" /\ last'.outcome # "positive") => events' = events]_vars

\* C25 witness: a candidate has just been classified as not suspicious while the
\* log holds an earlier entry; the log holds that entry alone, unchanged
C25_Witness ==
    /\ last.op = "Resolve" /\ last.outcome = "negative"
    /\ Len(events) = 1 /\ events[1].isSuspicious
    /\ events[1].timestamp < clock

\* a tick raised a sound candidate, a motion candidate
AudioRaised(outcome) == outcome \in {"cooldown", "noctx", "dropped", "verify", "instant"}

MotionRaised(outcome) == outcome \in {"cooldown", "dropped", "verify", "instant"}

\* C26: while smart guard is on and a verification is outstanding, a tick whose
\* candidate comes more than the smart-guard window of 1000 ms after the last
\* accepted one sets the cooldown clock to its time, sends no verification and
\* logs no event.
C26_DroppedCandidateRestartsCooldown ==
    [][(/\ last'.op = "Tick"
        /\ isSmartGuard /\ isAnalyzing /\ pending # {}
        /\ AudioRaised(last'.audio) \/ MotionRaised(last'.motion)
        /\ clock' - lastDetectionTimeRef > CooldownSmart)
         => /\ lastDetectionTimeRef' = clock'
            /\ pending' = pending
            /\ events' = events]_vars

\* C27: a step that takes the alarm state from Idle to Alerting puts exactly one
\* new event in front of the log, and is either a tick that accepted a candidate
\* instantly, smart guard being off, or the arrival of a verification that came
\* back with isSuspicious = true.
C27_AlertingOnlyWithEvent ==
    [][(~isSuspicious /\ isSuspicious')
         => /\ Len(events') >= 1
            /\ Tail(events') = SubSeq(events, 1, Len(events') - 1)
            /\ Len(events') = IF Len(events) < MaxEvents THEN Len(events) + 1 ELSE MaxEvents
            /\ events'[1].timestamp = clock'
            /\ \/ /\ last'.op = "Tick"
                  /\ "instant" \in {last'.audio, last'.motion}
                  /\ ~isSmartGuard
               \/ /\ last'.op = "Resolve"
                  /\ last'.outcome = "positive"]_vars

====
